---- MODULE Spec2Model ----
(***************************************************************************)
(* A model of EGRET's DCOPF-with-losses driver:                            *)
(*   egret/models/dcopf_losses.py   builders and solve_dcopf_losses        *)
(*   egret/common/solver_interface.py   _solve_model                       *)
(*   egret/data/data_utils.py   create_dicts_of_ptdf(_losses)              *)
(* One behaviour is one call of an entry point on one network snapshot.    *)
(* Python dicts are functions whose DOMAIN is the set of keys present;     *)
(* None, for an object reference, is the empty sequence and an object is   *)
(* the one-element sequence holding it.                                    *)
(***************************************************************************)
EXTENDS Integers, Sequences, FiniteSets, TLC

VARIABLES
    pc,              \* position of the call
    call,            \* the entry point the caller invoked
    model_data,      \* the caller's ModelData object
    generator,       \* dcopf_losses_model_generator
    solver,          \* the kind of the solver argument
    base_point_arg,  \* base_point given to a direct data_utils call (<<>>: omitted)
    case,            \* which sensitivity matrices tx_calc computes for the network
    md,              \* the builder's clone (<<>> before it exists)
    m,               \* the pyomo model (<<>> before it exists)
    results,         \* the solver's results object (<<>> before the solve)
    raised,          \* the exception that left the call (<<>>: none)
    returned,        \* what the call returned (<<>>: nothing)
    idx,             \* loop position inside the extraction loops
    calls,           \* collaborator calls made so far, in order
    wrote,           \* result fields written so far: <<element type, name, field>>
    return_flags,    \* <<return_model, return_results>> of the call, once read
    solver_name,     \* solver.name, as the set of family names it contains
    mipgap,          \* mipgap reaching _set_options (<<>>: None)
    timelimit,       \* timelimit reaching _set_options (<<>>: None)
    other_options,   \* other_options reaching _set_options (<<>>: None)
    solver_options,  \* solver.options, a dict
    uc_model,        \* the attributes add_model_attr set on the model: attr -> name
    uc_log           \* history of the decorated calls made on the model

vars == <<pc, call, model_data, generator, solver, base_point_arg, case, md, m,
          results, raised, returned, idx, calls, wrote, return_flags,
          solver_name, mipgap, timelimit, other_options, solver_options,
          uc_model, uc_log>>

uc_vars == <<uc_model, uc_log>>

option_args == <<solver_name, mipgap, timelimit, other_options>>

----------------------------------------------------------------------------
(* Bounds of the model *)

NumBus == 2
NumBranch == 2
NumGen == 1
MaxCase == 2

Buses == 1..NumBus
Branches == 1..NumBranch
Gens == 1..NumGen
Cases == 0..MaxCase

----------------------------------------------------------------------------
(* Python dict helpers *)

DictSet(d, k, v) == [x \in (DOMAIN d) \cup {k} |-> IF x = k THEN v ELSE d[x]]

DictPop(d, k) == [x \in (DOMAIN d) \ {k} |-> d[x]]

\* sum of f[x] over the finite set S
RECURSIVE SetSum(_, _)
SetSum(f, S) ==
    IF S = {} THEN 0
    ELSE LET x == CHOOSE y \in S : TRUE IN f[x] + SetSum(f, S \ {x})

----------------------------------------------------------------------------
(* The caller's snapshot *)

\* a network of NumBus buses on which every branch joins two distinct buses;
\* prior: the snapshot already holds results of an earlier solve
InputSnapshot(prior) ==
    [ scaled    |-> FALSE,
      system    |-> [reference_bus |-> 1, reference_bus_angle |-> 0],
      bus       |-> [b \in Buses |->
                        IF prior
                        THEN [va |-> 0, vm |-> 1, lmp |-> 99, qlmp |-> 98]
                        ELSE [va |-> 0, vm |-> 1]],
      branch    |-> [k \in Branches |->
                        [from_bus |-> ((k - 1) % NumBus) + 1,
                         to_bus |-> (k % NumBus) + 1,
                         rating_long_term |-> 3 + k]],
      generator |-> [g \in Gens |->
                        [bus |-> 1, p_min |-> 0, p_max |-> 10, pg |-> 0]],
      load      |-> [b \in Buses |-> [bus |-> b, p_load |-> 5 * b]] ]

\* the reference bus a snapshot names: a bus of the network, or a name that
\* no bus carries
ReferenceBuses == {1, NumBus + 1}

----------------------------------------------------------------------------
(* egret.model_library.transmission.tx_calc and tx_utils: the sensitivity  *)
(* engine and the per-unit scaling.  Their results are inputs here: the    *)
(* matrices of network `c` linearized at base point `bp`.                  *)

BasePointType == {"FLATSTART", "SOLUTION"}

BpShift(bp) == IF bp = "FLATSTART" THEN 0 ELSE 1

\* the reference bus's column of a PTDF matrix is zero by construction
calculate_ptdf(c, bp, ref) ==
    [k \in Branches |-> [b \in Buses |->
        IF b = ref THEN 0 ELSE ((c + BpShift(bp) + k + 2 * b) % 3) - 1]]

\* <<ptdf_r, ldf, ldf_c>>
calculate_ptdf_ldf(c, bp, ref) ==
    << [k \in Branches |-> [b \in Buses |->
            IF b = ref THEN 0 ELSE ((c + BpShift(bp) + 2 * k + b) % 3) - 1]],
       [k \in Branches |-> [b \in Buses |-> ((c + BpShift(bp) + k + b) % 3) - 1]],
       [k \in Branches |-> (c + k) % 2] >>

\* <<phi_from, phi_to>>, indexed [bus][branch]; nonzero only at the branch's end
calculate_phi_constant(c, branches) ==
    << [b \in Buses |-> [k \in Branches |->
            IF branches[k].from_bus = b THEN ((c + k) % 3) - 1 ELSE 0]],
       [b \in Buses |-> [k \in Branches |->
            IF branches[k].to_bus = b THEN ((c + 2 * k) % 3) - 1 ELSE 0]] >>

\* <<phi_loss_from, phi_loss_to>>
calculate_phi_loss_constant(c, branches) ==
    << [b \in Buses |-> [k \in Branches |->
            IF branches[k].from_bus = b THEN (c + k + 1) % 2 ELSE 0]],
       [b \in Buses |-> [k \in Branches |->
            IF branches[k].to_bus = b THEN (c + k) % 2 ELSE 0]] >>

\* the sensitivity computations reject a reference bus outside the bus set
ReferenceBusRejected(bus_names, ref) == ref \notin bus_names

MalformedTopologyError ==
    [type |-> "malformed-topology", text |-> "reference bus {} is not a bus",
     arg |-> "reference_bus", where |-> "tx_calc"]

\* ModelData.clone_in_service: an independent copy of the snapshot
clone_in_service(snapshot) == snapshot

scale_ModelData_to_pu(snapshot) == [snapshot EXCEPT !.scaled = TRUE]

unscale_ModelData_to_pu(snapshot) == [snapshot EXCEPT !.scaled = FALSE]

\* tx_utils.dict_of_bus_loads: the real load summed per bus
dict_of_bus_loads(buses, loads) ==
    [b \in DOMAIN buses |->
        SetSum([l \in DOMAIN loads |-> loads[l].p_load],
               {l \in DOMAIN loads : loads[l].bus = b})]

----------------------------------------------------------------------------
(* egret/data/data_utils.py *)

\* faulty variant: the zero entries are dropped from every row
DenseRowDroppingZeros(row) == [j \in {i \in DOMAIN row : row[i] # 0} |-> row[j]]

\* a row of a matrix as a dict holding every column
DenseRow(row) == row

\* faulty variant: the filter on zero entries is lost
SparseRowKeepingZeros(row) == row

\* a row of a matrix as a dict holding the columns whose entry is not 0
SparseRow(row) == [j \in {i \in DOMAIN row : row[i] # 0} |-> row[j]]

create_dicts_of_ptdf_default == "FLATSTART"

\* faulty variant: the losses default copied from create_dicts_of_ptdf
create_dicts_of_ptdf_losses_default_flat == "FLATSTART"

create_dicts_of_ptdf_losses_default == "SOLUTION"

\* the snapshot after create_dicts_of_ptdf(md, base_point)
create_dicts_of_ptdf(snapshot, c, base_point) ==
    LET reference_bus == snapshot.system.reference_bus
        ptdf == calculate_ptdf(c, base_point, reference_bus)
        phi  == calculate_phi_constant(c, snapshot.branch)
    IN [snapshot EXCEPT
          !.branch = [k \in DOMAIN @ |-> DictSet(@[k], "ptdf", DenseRow(ptdf[k]))],
          !.bus = [b \in DOMAIN @ |->
                      DictSet(DictSet(@[b], "phi_from", SparseRow(phi[1][b])),
                              "phi_to", SparseRow(phi[2][b]))]]

\* the snapshot after create_dicts_of_ptdf_losses(md, base_point)
create_dicts_of_ptdf_losses(snapshot, c, base_point) ==
    LET reference_bus == snapshot.system.reference_bus
        pl   == calculate_ptdf_ldf(c, base_point, reference_bus)
        phi  == calculate_phi_constant(c, snapshot.branch)
        phil == calculate_phi_loss_constant(c, snapshot.branch)
    IN [snapshot EXCEPT
          !.branch = [k \in DOMAIN @ |->
                      DictSet(DictSet(DictSet(@[k],
                              "ptdf_r", DenseRow(pl[1][k])),
                              "ldf", DenseRow(pl[2][k])),
                              "ldf_c", pl[3][k])],
          !.bus = [b \in DOMAIN @ |->
                      DictSet(DictSet(DictSet(DictSet(@[b],
                              "phi_from", SparseRow(phi[1][b])),
                              "phi_to", SparseRow(phi[2][b])),
                              "phi_loss_from", SparseRow(phil[1][b])),
                              "phi_loss_to", SparseRow(phil[2][b]))]]

----------------------------------------------------------------------------
(* egret/models/dcopf_losses.py: the two builders *)

Generators == {"create_btheta_losses_dcopf_model",
               "create_ptdf_losses_dcopf_model",
               "partial(create_ptdf_losses_dcopf_model)"}

\* the builder a generator runs; functools.partial wraps one
BuilderOf(g) ==
    IF g = "create_btheta_losses_dcopf_model"
    THEN "create_btheta_losses_dcopf_model"
    ELSE "create_ptdf_losses_dcopf_model"

\* pf_bounds[k], <<lower, upper>>, for a branch of thermal limit p_max
pf_bounds(p_max) == <<-p_max, p_max>>

\* faulty variant: the angle-based builder given the signed loss range
btheta_pfl_bounds_signed(p_max) == <<-(p_max * p_max), p_max * p_max>>

\* pfl_bounds[k] of create_btheta_losses_dcopf_model
btheta_pfl_bounds(p_max) == <<0, p_max * p_max>>

\* pfl_bounds[k] of create_ptdf_losses_dcopf_model
ptdf_pfl_bounds(p_max) == <<-(p_max * p_max), p_max * p_max>>

\* <<model, md>> of create_btheta_losses_dcopf_model(model_data)
create_btheta_losses_dcopf_model(snapshot) ==
    LET clone == scale_ModelData_to_pu(clone_in_service(snapshot))
        bus_p_loads == dict_of_bus_loads(clone.bus, clone.load)
        p_max == [k \in DOMAIN clone.branch |-> clone.branch[k].rating_long_term]
        model ==
          [ pl          |-> bus_p_loads,
            va_bounds   |-> [b \in DOMAIN clone.bus |-> "(-pi, pi)"],
            va_fixed    |-> {clone.system.reference_bus},
            pg_bounds   |-> [g \in DOMAIN clone.generator |->
                               <<clone.generator[g].p_min, clone.generator[g].p_max>>],
            pf_bounds   |-> [k \in DOMAIN clone.branch |-> pf_bounds(p_max[k])],
            pfl_bounds  |-> [k \in DOMAIN clone.branch |-> btheta_pfl_bounds(p_max[k])],
            constraints |-> {"eq_dva_branch", "eq_pf_branch", "ineq_pfl_branch",
                             "eq_p_balance[bus]", "ineq_pf_branch_thermal"},
            suffixes    |-> {},
            solution    |-> <<>> ]
    IN <<model, clone>>

\* <<model, md>> of create_ptdf_losses_dcopf_model(model_data)
create_ptdf_losses_dcopf_model(snapshot, c) ==
    LET scaled == scale_ModelData_to_pu(clone_in_service(snapshot))
        clone == create_dicts_of_ptdf_losses(scaled, c,
                                             create_dicts_of_ptdf_losses_default)
        bus_p_loads == dict_of_bus_loads(clone.bus, clone.load)
        p_max == [k \in DOMAIN clone.branch |-> clone.branch[k].rating_long_term]
        model ==
          [ pl          |-> bus_p_loads,
            pg_bounds   |-> [g \in DOMAIN clone.generator |->
                               <<clone.generator[g].p_min, clone.generator[g].p_max>>],
            pf_bounds   |-> [k \in DOMAIN clone.branch |-> pf_bounds(p_max[k])],
            pfl_bounds  |-> [k \in DOMAIN clone.branch |-> ptdf_pfl_bounds(p_max[k])],
            constraints |-> {"eq_pf_branch", "eq_pfl_branch", "eq_p_balance",
                             "ineq_pf_branch_thermal"},
            suffixes    |-> {},
            solution    |-> <<>> ]
    IN <<model, clone>>

\* faulty variant: a reference bus that is no bus is skipped without a word
ReferenceBusPinSkipped(snapshot) == FALSE

\* model.va[ref_bus].fix(radians(ref_angle)) fails: va has no such index
ReferenceBusPinFails(snapshot) ==
    snapshot.system.reference_bus \notin DOMAIN snapshot.bus

ReferenceBusPinError ==
    [type |-> "KeyError", text |-> "Index '{}' is not valid for indexed component 'va'",
     arg |-> "reference_bus", where |-> "create_btheta_losses_dcopf_model"]

\* the generator raises instead of returning (model, md)
BuilderRaises(g, snapshot) ==
    IF BuilderOf(g) = "create_btheta_losses_dcopf_model"
    THEN ReferenceBusPinFails(snapshot)
    ELSE ReferenceBusRejected(DOMAIN snapshot.bus, snapshot.system.reference_bus)

BuilderError(g) ==
    IF BuilderOf(g) = "create_btheta_losses_dcopf_model"
    THEN ReferenceBusPinError
    ELSE MalformedTopologyError

\* the collaborators a builder calls on its clone, in order
BuilderCalls(g) ==
    IF BuilderOf(g) = "create_btheta_losses_dcopf_model"
    THEN <<"clone_in_service", "scale_ModelData_to_pu">>
    ELSE <<"clone_in_service", "scale_ModelData_to_pu", "create_dicts_of_ptdf_losses">>

----------------------------------------------------------------------------
(* egret/common/solver_interface.py and the external solver *)

\* decorated functions: @add_model_attr(attr, requires) def name(model, ...);
\* requires lists (base_attr, requirement) in the dict's order, a requirement
\* being <<>> (None) or <<the allowed names>>
DecoratedFunctions ==
    { [name |-> "f1", attr |-> "status_vars", requires |-> <<>>],
      [name |-> "f2", attr |-> "status_vars", requires |-> <<>>],
      [name |-> "g1", attr |-> "power_vars",
       requires |-> << <<"status_vars", <<{"f1"}>> >> >>],
      [name |-> "g2", attr |-> "power_vars",
       requires |-> << <<"status_vars", <<>> >> >>],
      [name |-> "h1", attr |-> "reserve_vars",
       requires |-> << <<"status_vars", <<>> >>, <<"power_vars", <<{"g1"}>> >> >>] }

\* hasattr(model, attr)
hasattr(model, attr) == attr \in DOMAIN model

\* faulty variant: the wrapper does not look for the attribute
AlreadyHasUnchecked(model, f) == FALSE

\* the wrapper's first test: hasattr(model, attr)
AlreadyHas(model, f) == hasattr(model, f.attr)

AddModelAttrError(text, arg) ==
    [type |-> "Exception", text |-> text, arg |-> arg, where |-> "add_model_attr"]

\* the loop over requires from its i-th entry: <<>> when it completes,
\* <<exception>> when it raises
RECURSIVE RequiresLoop(_, _, _)
RequiresLoop(model, requires, i) ==
    IF i > Len(requires) THEN <<>>
    ELSE LET base_attr == requires[i][1]
             requirement == requires[i][2]
         IN IF ~hasattr(model, base_attr)
            THEN <<AddModelAttrError("requires some", base_attr)>>
            ELSE IF requirement = <<>>
            THEN RequiresLoop(model, requires, i + 1)
            ELSE IF model[base_attr] \notin requirement[1]
            THEN <<AddModelAttrError("requires one of", base_attr)>>
            ELSE RequiresLoop(model, requires, i + 1)

\* what the wrapper raises before it tags the model (<<>>: nothing)
WrapperError(model, f) ==
    IF AlreadyHas(model, f)
    THEN <<AddModelAttrError("Model already has", f.attr)>>
    ELSE RequiresLoop(model, f.requires, 1)

\* faulty variant: the model is tagged only once the body has returned
TagOnReturn(model, f, body_raises) ==
    IF body_raises THEN model ELSE DictSet(model, f.attr, f.name)

\* the model once the wrapper's call has ended: setattr(model, attr,
\* func.__name__) comes before func(*args, **kwds), whatever the body does
TagOnCall(model, f, body_raises) == DictSet(model, f.attr, f.name)

\* the exception a failing body lets through the wrapper
BodyError(f) ==
    [type |-> "Exception", text |-> "body", arg |-> f.name, where |-> f.name]

\* the solver families _set_options knows, in the order it tests for them
Families == <<"gurobi", "cplex", "glpk", "cbc">>

\* 'family' in solver_name
NameContains(name, family) == family \in name

\* the branch of the if/elif chain taken for a solver name ("": none)
FamilyTaken(name) ==
    IF NameContains(name, "gurobi") THEN "gurobi"
    ELSE IF NameContains(name, "cplex") THEN "cplex"
    ELSE IF NameContains(name, "glpk") THEN "glpk"
    ELSE IF NameContains(name, "cbc") THEN "cbc"
    ELSE ""

\* the option each family's branch assigns mipgap to
GapOption ==
    [gurobi |-> "MIPGap", cplex |-> "mip_tolerances_mipgap",
     glpk |-> "mipgap", cbc |-> "ratioGap"]

\* the option each family's branch assigns timelimit to
TimeLimitOption ==
    [gurobi |-> "TimeLimit", cplex |-> "timelimit", glpk |-> "tmlim", cbc |-> "sec"]

\* solver.options after the if/elif chain
FamilyOptions(opts, name, gap, limit) ==
    LET family == FamilyTaken(name)
        o1 == IF family # "" /\ gap # <<>>
              THEN DictSet(opts, GapOption[family], gap[1]) ELSE opts
    IN IF family # "" /\ limit # <<>>
       THEN DictSet(o1, TimeLimitOption[family], limit[1]) ELSE o1

\* solver.options after: for key, opt in other_options.items(): options[key] = opt
PassThrough(opts, other) ==
    IF other = <<>> THEN opts
    ELSE [k \in (DOMAIN opts) \cup (DOMAIN other[1]) |->
             IF k \in DOMAIN other[1] THEN other[1][k] ELSE opts[k]]

\* faulty variant: the passthrough options are written first and overridden
set_options_passthrough_first(opts, name, gap, limit, other) ==
    FamilyOptions(PassThrough(opts, other), name, gap, limit)

\* solver.options after _set_options(solver, mipgap, timelimit, other_options)
_set_options(opts, name, gap, limit, other) ==
    PassThrough(FamilyOptions(opts, name, gap, limit), other)

\* mipgap of _solve_model when its caller passes none
solve_model_mipgap_default == "0.001"

\* pyomo.opt.TerminationCondition
TerminationCondition ==
    {"unknown", "maxTimeLimit", "maxIterations", "minFunctionValue",
     "minStepLength", "globallyOptimal", "locallyOptimal", "feasible",
     "optimal", "maxEvaluations", "other", "unbounded", "infeasible",
     "infeasibleOrUnbounded", "invalidProblem", "intermediateNonInteger",
     "noSolution", "solverFailure", "internalSolverError", "error",
     "userInterrupt", "resourceInterrupt", "licensingProblems"}

\* faulty variant: the safe list without the generic status
safe_termination_conditions_without_other ==
    {"maxTimeLimit", "maxIterations", "minFunctionValue", "minStepLength",
     "globallyOptimal", "locallyOptimal", "feasible", "optimal",
     "maxEvaluations"}

safe_termination_conditions ==
    {"maxTimeLimit", "maxIterations", "minFunctionValue", "minStepLength",
     "globallyOptimal", "locallyOptimal", "feasible", "optimal",
     "maxEvaluations", "other"}

\* what the solver argument can be
SolverArgs == {"str", "OptSolver", "other"}

\* the primal and dual values solve() loads into a model; s picks the solution,
\* duals says whether the solver filled the imported dual suffix
Solution(model, s, duals) ==
    [ obj   |-> 10 * s + 5,
      pg    |-> [g \in DOMAIN model.pg_bounds |-> s + g],
      pf    |-> [k \in DOMAIN model.pf_bounds |-> k - s],
      pfl   |-> [k \in DOMAIN model.pfl_bounds |-> s + 2 * k],
      va    |-> IF "va_bounds" \in DOMAIN model
               THEN [b \in DOMAIN model.va_bounds |-> b - s]
               ELSE <<>>,
      duals |-> duals,
      dual  |-> [ eq_p_balance     |-> 7 + s,
                  eq_p_balance_bus |-> [b \in DOMAIN model.pl |-> 7 + s + b],
                  eq_pf_branch     |-> [k \in DOMAIN model.pf_bounds |->
                                           ((s + k) % 3) - 1],
                  eq_pfl_branch    |-> [k \in DOMAIN model.pfl_bounds |->
                                           ((s + 2 * k + 1) % 3) - 1] ] ]

\* results.solver of the results object solve() returns
SolverResults(tc) == [termination_condition |-> tc]

\* the exception Python raises for isinstance(solver, pyomo.opt.base.OptSolver):
\* the module binds no name `pyomo`
OptSolverCheckError ==
    [type |-> "NameError", text |-> "name 'pyomo' is not defined", arg |-> "",
     where |-> "_solve_model"]

\* the exception the raise statement for an unsafe status ends with: its
\* message is formatted from results.solver.terminataion_condition
RejectionError(solver_results) ==
    IF "terminataion_condition" \in DOMAIN solver_results
    THEN [type |-> "Exception",
          text |-> "Problem encountered during solve, termination_condition {}",
          arg  |-> solver_results["terminataion_condition"],
          where |-> "_solve_model"]
    ELSE [type |-> "AttributeError",
          text |-> "Unknown attribute {}",
          arg  |-> "terminataion_condition",
          where |-> "_solve_model"]

----------------------------------------------------------------------------
(* solve_dcopf_losses: result extraction *)

\* the keys of a dict in iteration order (elements are inserted in name order)
Items(d) == [i \in 1..Cardinality(DOMAIN d) |-> i]

\* faulty variant: the loss-sensitivity term is left out of the sum
RECURSIVE PtdfLmpLoopWithoutLdf(_, _, _, _, _, _)
PtdfLmpLoopWithoutLdf(acc, ks, i, branches, b, dual) ==
    IF i > Len(ks) THEN acc
    ELSE LET k == ks[i]
             acc1 == acc + branches[k]["ptdf_r"][b] * dual.eq_pf_branch[k]
         IN PtdfLmpLoopWithoutLdf(acc1, ks, i + 1, branches, b, dual)

\* the PTDF marginal price of bus b: b_dict['lmp'] after the branch loop,
\* starting from acc and visiting the branches ks[i..] in order
RECURSIVE PtdfLmpLoop(_, _, _, _, _, _)
PtdfLmpLoop(acc, ks, i, branches, b, dual) ==
    IF i > Len(ks) THEN acc
    ELSE LET k == ks[i]
             acc1 == acc + branches[k]["ptdf_r"][b] * dual.eq_pf_branch[k]
             acc2 == acc1 + branches[k]["ldf"][b] * dual.eq_pfl_branch[k]
         IN PtdfLmpLoop(acc2, ks, i + 1, branches, b, dual)

\* m.dual[...] raises KeyError: the solver returned no duals
DualLookupFails(gen, sol) ==
    /\ gen \in {"create_btheta_losses_dcopf_model", "create_ptdf_losses_dcopf_model"}
    /\ ~sol.duals

\* k_dict['ptdf_r'][b] or k_dict['ldf'][b] raises KeyError for some branch
SensitivityLookupFails(gen, snapshot, b) ==
    /\ gen = "create_ptdf_losses_dcopf_model"
    /\ \E k \in DOMAIN snapshot.branch :
          \/ "ptdf_r" \notin DOMAIN snapshot.branch[k]
          \/ "ldf" \notin DOMAIN snapshot.branch[k]
          \/ b \notin DOMAIN snapshot.branch[k]["ptdf_r"]
          \/ b \notin DOMAIN snapshot.branch[k]["ldf"]

\* a lookup of the bus loop's body raises KeyError
BusLookupFails(gen, snapshot, sol, b) ==
    DualLookupFails(gen, sol) \/ SensitivityLookupFails(gen, snapshot, b)

\* the lookup that raises first: the bus's dual is read before the branch loop
BusLookupFailing(gen, sol) ==
    IF DualLookupFails(gen, sol) THEN "m.dual" ELSE "k_dict"

\* b_dict after 'pl' is written and 'qlmp' popped
BusDictLoad(b_dict, model, b) == DictPop(DictSet(b_dict, "pl", model.pl[b]), "qlmp")

\* b_dict after one full pass of the bus loop's body
BusDictDone(gen, snapshot, model, sol, b) ==
    LET d0 == BusDictLoad(snapshot.bus[b], model, b)
    IN IF gen = "create_btheta_losses_dcopf_model"
       THEN DictSet(DictSet(d0, "lmp", sol.dual.eq_p_balance_bus[b]), "va", sol.va[b])
       ELSE IF gen = "create_ptdf_losses_dcopf_model"
       THEN DictSet(d0, "lmp",
                    PtdfLmpLoop(sol.dual.eq_p_balance, Items(snapshot.branch), 1,
                                snapshot.branch, b, sol.dual))
       ELSE d0

\* the result fields one pass of the bus loop's body writes
BusFieldsDone(gen) ==
    IF gen = "create_btheta_losses_dcopf_model" THEN {"pl", "lmp", "va"}
    ELSE IF gen = "create_ptdf_losses_dcopf_model" THEN {"pl", "lmp"}
    ELSE {"pl"}

\* faulty variant: the branch loop writes nothing
BranchDictUntouched(k_dict, sol, k) == k_dict

\* k_dict after the branch loop's body
BranchDictDone(k_dict, sol, k) == DictSet(k_dict, "pf", sol.pf[k])

BranchFieldsDone == {"pf"}

\* faulty variant: the two single-flag returns are exchanged
ReturnValueExchanged(snapshot, model, res, return_model, return_results) ==
    IF return_model /\ return_results
    THEN [shape |-> "md, m, results", md |-> <<snapshot>>, m |-> <<model>>, results |-> <<res>>]
    ELSE IF return_results
    THEN [shape |-> "md, m", md |-> <<snapshot>>, m |-> <<model>>, results |-> <<>>]
    ELSE IF return_model
    THEN [shape |-> "md, results", md |-> <<snapshot>>, m |-> <<>>, results |-> <<res>>]
    ELSE [shape |-> "md", md |-> <<snapshot>>, m |-> <<>>, results |-> <<>>]

\* what solve_dcopf_losses hands back for the two flags
ReturnValue(snapshot, model, res, return_model, return_results) ==
    IF return_model /\ return_results
    THEN [shape |-> "md, m, results", md |-> <<snapshot>>, m |-> <<model>>, results |-> <<res>>]
    ELSE IF return_model
    THEN [shape |-> "md, m", md |-> <<snapshot>>, m |-> <<model>>, results |-> <<>>]
    ELSE IF return_results
    THEN [shape |-> "md, results", md |-> <<snapshot>>, m |-> <<>>, results |-> <<res>>]
    ELSE [shape |-> "md", md |-> <<snapshot>>, m |-> <<>>, results |-> <<>>]

----------------------------------------------------------------------------
(* The state machine *)

EntryPoints == {"solve_dcopf_losses", "create_dicts_of_ptdf",
                "create_dicts_of_ptdf_losses", "_set_options", "add_model_attr"}

\* decorated calls made on one model
MaxCalls == 3

\* the entry points that work on a ModelData object
ModelDataEntryPoints == {"solve_dcopf_losses", "create_dicts_of_ptdf",
                         "create_dicts_of_ptdf_losses"}

\* solver names: those naming no family, one family, or two
SolverNames == {n \in SUBSET {Families[i] : i \in DOMAIN Families} : Cardinality(n) <= 2}

\* passthrough option dicts a caller may hand over
PassThroughKeys == {"MIPGap", "tmlim", "threads"}

PassThroughDicts == UNION {[K -> {"passthrough"}] : K \in SUBSET PassThroughKeys}

\* an optional argument: omitted, or given
Optional(S) == {<<>>} \cup {<<x>> : x \in S}

Default(arg, dflt) == IF arg = <<>> THEN dflt ELSE arg[1]

Init ==
    /\ pc = "start"
    /\ call \in EntryPoints
    /\ IF call \in ModelDataEntryPoints
       THEN /\ \E prior \in BOOLEAN, ref \in ReferenceBuses :
                  model_data = [InputSnapshot(prior) EXCEPT !.system.reference_bus = ref]
            /\ case \in Cases
       ELSE /\ model_data = InputSnapshot(FALSE)
            /\ case = 0
    /\ IF call = "solve_dcopf_losses"
       THEN /\ generator \in Generators
            /\ solver \in SolverArgs
            /\ base_point_arg = <<>>
       ELSE /\ generator = "create_btheta_losses_dcopf_model"
            /\ solver = "str"
            /\ base_point_arg \in IF call \in ModelDataEntryPoints
                                   THEN Optional(BasePointType) ELSE {<<>>}
    /\ md = <<>>
    /\ m = <<>>
    /\ results = <<>>
    /\ raised = <<>>
    /\ returned = <<>>
    /\ idx = 0
    /\ calls = <<>>
    /\ wrote = {}
    /\ return_flags = <<>>
    /\ solver_options = <<>>
    /\ uc_model = <<>>
    /\ uc_log = <<>>
    /\ IF call = "_set_options"
       THEN /\ solver_name \in SolverNames
            /\ mipgap \in Optional({"0.001"})
            /\ timelimit \in Optional({"60"})
            /\ other_options \in Optional(PassThroughDicts)
       ELSE /\ solver_name \in IF call = "solve_dcopf_losses" /\ solver = "str"
                                THEN {{}, {"gurobi"}} ELSE {{}}
            /\ mipgap = <<solve_model_mipgap_default>>
            /\ timelimit = <<>>
            /\ other_options = <<>>

\* data_utils.create_dicts_of_ptdf(md[, base_point]) called on the caller's object
CallCreateDictsOfPtdf ==
    /\ pc = "start" /\ call = "create_dicts_of_ptdf"
    /\ UNCHANGED uc_vars
    /\ UNCHANGED solver_options
    /\ UNCHANGED option_args
    /\ UNCHANGED return_flags
    /\ ~ReferenceBusRejected(DOMAIN model_data.bus, model_data.system.reference_bus)
    /\ model_data' = create_dicts_of_ptdf(model_data, case,
                        Default(base_point_arg, create_dicts_of_ptdf_default))
    /\ calls' = Append(calls, "calculate_ptdf")
    /\ pc' = "done"
    /\ UNCHANGED <<call, generator, solver, base_point_arg, case, md, m, results,
                   raised, returned, idx, wrote>>

\* data_utils.create_dicts_of_ptdf_losses(md[, base_point]) called on the caller's object
CallCreateDictsOfPtdfLosses ==
    /\ pc = "start" /\ call = "create_dicts_of_ptdf_losses"
    /\ UNCHANGED uc_vars
    /\ UNCHANGED solver_options
    /\ UNCHANGED option_args
    /\ UNCHANGED return_flags
    /\ ~ReferenceBusRejected(DOMAIN model_data.bus, model_data.system.reference_bus)
    /\ model_data' = create_dicts_of_ptdf_losses(model_data, case,
                        Default(base_point_arg, create_dicts_of_ptdf_losses_default))
    /\ calls' = Append(calls, "calculate_ptdf_ldf")
    /\ pc' = "done"
    /\ UNCHANGED <<call, generator, solver, base_point_arg, case, md, m, results,
                   raised, returned, idx, wrote>>

\* _set_options(solver, mipgap, timelimit, other_options) called on a solver
CallSetOptions ==
    /\ pc = "start" /\ call = "_set_options"
    /\ UNCHANGED uc_vars
    /\ solver_options' = _set_options(solver_options, solver_name, mipgap,
                                      timelimit, other_options)
    /\ calls' = Append(calls, "_set_options")
    /\ pc' = "done"
    /\ UNCHANGED <<call, model_data, generator, solver, base_point_arg, case, md, m,
                   results, raised, returned, idx, wrote, return_flags, option_args>>

\* a decorated function called on the model, the wrapper raising
CallDecoratedRejected ==
    /\ pc = "start" /\ call = "add_model_attr"
    /\ Len(uc_log) < MaxCalls
    /\ \E f \in DecoratedFunctions :
          /\ WrapperError(uc_model, f) # <<>>
          /\ uc_log' = Append(uc_log, [func |-> f, before |-> uc_model,
                                       after |-> uc_model, body |-> "not run",
                                       exc |-> WrapperError(uc_model, f)])
    /\ UNCHANGED uc_model
    /\ UNCHANGED <<pc, call, model_data, generator, solver, base_point_arg, case, md,
                   m, results, raised, returned, idx, calls, wrote, return_flags,
                   option_args, solver_options>>

\* a decorated function called on the model, the wrapper reaching the body,
\* which returns or raises
CallDecoratedRuns ==
    /\ pc = "start" /\ call = "add_model_attr"
    /\ Len(uc_log) < MaxCalls
    /\ \E f \in DecoratedFunctions, body_raises \in BOOLEAN :
          /\ WrapperError(uc_model, f) = <<>>
          /\ uc_model' = TagOnCall(uc_model, f, body_raises)
          /\ uc_log' = Append(uc_log,
                 [func |-> f, before |-> uc_model,
                  after |-> TagOnCall(uc_model, f, body_raises),
                  body |-> IF body_raises THEN "raised" ELSE "returned",
                  exc |-> IF body_raises THEN <<BodyError(f)>> ELSE <<>>])
    /\ UNCHANGED <<pc, call, model_data, generator, solver, base_point_arg, case, md,
                   m, results, raised, returned, idx, calls, wrote, return_flags,
                   option_args, solver_options>>

\* a direct data_utils call whose sensitivity computation rejects the snapshot:
\* nothing has been stored on it yet
CallCreateDictsRaises ==
    /\ pc = "start" /\ call \in {"create_dicts_of_ptdf", "create_dicts_of_ptdf_losses"}
    /\ UNCHANGED uc_vars
    /\ UNCHANGED solver_options
    /\ UNCHANGED option_args
    /\ UNCHANGED return_flags
    /\ ReferenceBusRejected(DOMAIN model_data.bus, model_data.system.reference_bus)
    /\ raised' = <<MalformedTopologyError>>
    /\ calls' = Append(calls, IF call = "create_dicts_of_ptdf"
                              THEN "calculate_ptdf" ELSE "calculate_ptdf_ldf")
    /\ pc' = "raised"
    /\ UNCHANGED <<call, model_data, generator, solver, base_point_arg, case, md, m,
                   results, returned, idx, wrote>>

\* the generator raises during formulation: its clone, scaled already, is
\* dropped with the builder's frame and no model comes back
BuildRaises ==
    /\ pc = "start" /\ call = "solve_dcopf_losses"
    /\ UNCHANGED uc_vars
    /\ UNCHANGED solver_options
    /\ UNCHANGED option_args
    /\ UNCHANGED return_flags
    /\ BuilderRaises(generator, model_data)
    /\ md' = <<scale_ModelData_to_pu(clone_in_service(model_data))>>
    /\ raised' = <<BuilderError(generator)>>
    /\ calls' = calls \o BuilderCalls(generator)
    /\ pc' = "raised"
    /\ UNCHANGED <<call, model_data, generator, solver, base_point_arg, case, m,
                   results, returned, idx, wrote>>

\* m, md = dcopf_losses_model_generator(model_data, **kwargs)
\* m.dual = pe.Suffix(direction=pe.Suffix.IMPORT)
Build ==
    /\ pc = "start" /\ call = "solve_dcopf_losses"
    /\ UNCHANGED uc_vars
    /\ UNCHANGED solver_options
    /\ UNCHANGED option_args
    /\ UNCHANGED return_flags
    /\ ~BuilderRaises(generator, model_data)
    /\ LET built == IF BuilderOf(generator) = "create_btheta_losses_dcopf_model"
                    THEN create_btheta_losses_dcopf_model(model_data)
                    ELSE create_ptdf_losses_dcopf_model(model_data, case)
       IN /\ m' = <<[built[1] EXCEPT !.suffixes = @ \cup {"dual"}]>>
          /\ md' = <<built[2]>>
    /\ calls' = calls \o BuilderCalls(generator)
    /\ pc' = "built"
    /\ UNCHANGED <<call, model_data, generator, solver, base_point_arg, case,
                   results, raised, returned, idx, wrote>>

\* _solve_model, solver neither a string: the isinstance test itself fails
SolveModelBadSolver ==
    /\ pc = "built" /\ solver # "str"
    /\ UNCHANGED uc_vars
    /\ UNCHANGED solver_options
    /\ UNCHANGED option_args
    /\ UNCHANGED return_flags
    /\ raised' = <<OptSolverCheckError>>
    /\ pc' = "raised"
    /\ UNCHANGED <<call, model_data, generator, solver, base_point_arg, case, md, m,
                   results, returned, idx, calls, wrote>>

\* _solve_model, the solver ends with a status outside the safe list
SolveModelRejected ==
    /\ pc = "built" /\ solver = "str"
    /\ UNCHANGED uc_vars
    /\ solver_options' = _set_options(solver_options, solver_name, mipgap,
                                      timelimit, other_options)
    /\ UNCHANGED option_args
    /\ UNCHANGED return_flags
    /\ \E tc \in TerminationCondition :
          /\ tc \notin safe_termination_conditions
          /\ results' = <<SolverResults(tc)>>
          /\ raised' = <<RejectionError(SolverResults(tc))>>
    /\ calls' = calls \o <<"SolverFactory", "_set_options", "solve">>
    /\ pc' = "raised"
    /\ UNCHANGED <<call, model_data, generator, solver, base_point_arg, case, md, m,
                   returned, idx, wrote>>

\* _solve_model, the solver ends with a status of the safe list
SolveModelAccepted ==
    /\ pc = "built" /\ solver = "str"
    /\ UNCHANGED uc_vars
    /\ solver_options' = _set_options(solver_options, solver_name, mipgap,
                                      timelimit, other_options)
    /\ UNCHANGED option_args
    /\ UNCHANGED return_flags
    /\ \E tc \in TerminationCondition, s \in Cases, duals \in BOOLEAN :
          /\ tc \in safe_termination_conditions
          /\ results' = <<SolverResults(tc)>>
          /\ m' = <<[m[1] EXCEPT !.solution = <<Solution(m[1], s, duals)>>]>>
    /\ calls' = calls \o <<"SolverFactory", "_set_options", "solve">>
    /\ pc' = "solved"
    /\ UNCHANGED <<call, model_data, generator, solver, base_point_arg, case, md,
                   raised, returned, idx, wrote>>

\* faulty variant: the total cost is stored on the caller's object
ExtractTotalCostOnCaller ==
    /\ pc = "solved"
    /\ UNCHANGED uc_vars
    /\ UNCHANGED solver_options
    /\ UNCHANGED option_args
    /\ UNCHANGED return_flags
    /\ model_data' = [model_data EXCEPT
                         !.system = DictSet(@, "total_cost", m[1].solution[1].obj)]
    /\ wrote' = wrote \cup {<<"system", 0, "total_cost">>}
    /\ pc' = "gens" /\ idx' = 1
    /\ UNCHANGED <<call, generator, solver, base_point_arg, case, md, m,
                   results, raised, returned, calls>>

\* md.data['system']['total_cost'] = value(m.obj)
ExtractTotalCost ==
    /\ pc = "solved"
    /\ UNCHANGED uc_vars
    /\ UNCHANGED solver_options
    /\ UNCHANGED option_args
    /\ UNCHANGED return_flags
    /\ md' = <<[md[1] EXCEPT !.system = DictSet(@, "total_cost", m[1].solution[1].obj)]>>
    /\ wrote' = wrote \cup {<<"system", 0, "total_cost">>}
    /\ pc' = "gens" /\ idx' = 1
    /\ UNCHANGED <<call, model_data, generator, solver, base_point_arg, case, m,
                   results, raised, returned, calls>>

\* one pass of: for g,g_dict in gens.items(): g_dict['pg'] = value(m.pg[g])
ExtractGen ==
    /\ pc = "gens"
    /\ UNCHANGED uc_vars
    /\ UNCHANGED solver_options
    /\ UNCHANGED option_args
    /\ UNCHANGED return_flags
    /\ IF idx > Cardinality(DOMAIN md[1].generator)
       THEN /\ pc' = "buses" /\ idx' = 1
            /\ UNCHANGED <<md, wrote>>
       ELSE LET g == Items(md[1].generator)[idx]
            IN /\ md' = <<[md[1] EXCEPT !.generator[g] =
                              DictSet(@, "pg", m[1].solution[1].pg[g])]>>
               /\ wrote' = wrote \cup {<<"generator", g, "pg">>}
               /\ idx' = idx + 1
               /\ UNCHANGED pc
    /\ UNCHANGED <<call, model_data, generator, solver, base_point_arg, case, m,
                   results, raised, returned, calls>>

\* one pass of the bus loop, every lookup of its body succeeding
ExtractBus ==
    /\ pc = "buses"
    /\ UNCHANGED uc_vars
    /\ UNCHANGED solver_options
    /\ UNCHANGED option_args
    /\ UNCHANGED return_flags
    /\ IF idx > Cardinality(DOMAIN md[1].bus)
       THEN /\ pc' = "branches" /\ idx' = 1
            /\ UNCHANGED <<md, wrote>>
       ELSE LET b == Items(md[1].bus)[idx]
            IN /\ ~BusLookupFails(generator, md[1], m[1].solution[1], b)
               /\ md' = <<[md[1] EXCEPT !.bus[b] =
                              BusDictDone(generator, md[1], m[1], m[1].solution[1], b)]>>
               /\ wrote' = wrote \cup {<<"bus", b, f>> : f \in BusFieldsDone(generator)}
               /\ idx' = idx + 1
               /\ UNCHANGED pc
    /\ UNCHANGED <<call, model_data, generator, solver, base_point_arg, case, m,
                   results, raised, returned, calls>>

\* one pass of the bus loop that ends in KeyError: 'pl' is written and 'qlmp'
\* popped, then the dual or sensitivity lookup raises
ExtractBusKeyError ==
    /\ pc = "buses"
    /\ UNCHANGED uc_vars
    /\ UNCHANGED solver_options
    /\ UNCHANGED option_args
    /\ UNCHANGED return_flags
    /\ idx <= Cardinality(DOMAIN md[1].bus)
    /\ LET b == Items(md[1].bus)[idx]
       IN /\ BusLookupFails(generator, md[1], m[1].solution[1], b)
          /\ md' = <<[md[1] EXCEPT !.bus[b] = BusDictLoad(@, m[1], b)]>>
          /\ wrote' = wrote \cup {<<"bus", b, "pl">>}
    /\ raised' = <<[type |-> "KeyError", text |-> "{}",
                     arg |-> BusLookupFailing(generator, m[1].solution[1]),
                     where |-> "solve_dcopf_losses"]>>
    /\ pc' = "raised"
    /\ UNCHANGED <<call, model_data, generator, solver, base_point_arg, case, m,
                   results, returned, idx, calls>>

\* one pass of: for k, k_dict in branches.items(): k_dict['pf'] = value(m.pf[k])
ExtractBranch ==
    /\ pc = "branches"
    /\ UNCHANGED uc_vars
    /\ UNCHANGED solver_options
    /\ UNCHANGED option_args
    /\ UNCHANGED return_flags
    /\ IF idx > Cardinality(DOMAIN md[1].branch)
       THEN /\ pc' = "unscale" /\ idx' = 0
            /\ UNCHANGED <<md, wrote>>
       ELSE LET k == Items(md[1].branch)[idx]
            IN /\ md' = <<[md[1] EXCEPT !.branch[k] =
                              BranchDictDone(@, m[1].solution[1], k)]>>
               /\ wrote' = wrote \cup {<<"branch", k, f>> : f \in BranchFieldsDone}
               /\ idx' = idx + 1
               /\ UNCHANGED pc
    /\ UNCHANGED <<call, model_data, generator, solver, base_point_arg, case, m,
                   results, raised, returned, calls>>

\* unscale_ModelData_to_pu(md, inplace=True)
Unscale ==
    /\ pc = "unscale"
    /\ UNCHANGED uc_vars
    /\ UNCHANGED solver_options
    /\ UNCHANGED option_args
    /\ UNCHANGED return_flags
    /\ md' = <<unscale_ModelData_to_pu(md[1])>>
    /\ calls' = Append(calls, "unscale_ModelData_to_pu")
    /\ pc' = "return"
    /\ UNCHANGED <<call, model_data, generator, solver, base_point_arg, case, m,
                   results, raised, returned, idx, wrote>>

\* the return statements, for the caller's return_model and return_results
Return ==
    /\ pc = "return"
    /\ UNCHANGED uc_vars
    /\ UNCHANGED solver_options
    /\ UNCHANGED option_args
    /\ \E return_model, return_results \in BOOLEAN :
          /\ return_flags' = <<return_model, return_results>>
          /\ returned' = <<ReturnValue(md[1], m[1], results[1],
                                       return_model, return_results)>>
    /\ pc' = "returned"
    /\ UNCHANGED <<call, model_data, generator, solver, base_point_arg, case, md, m,
                   results, raised, idx, calls, wrote>>

Next ==
    \/ CallCreateDictsOfPtdf
    \/ CallCreateDictsOfPtdfLosses
    \/ CallSetOptions
    \/ CallDecoratedRejected
    \/ CallDecoratedRuns
    \/ CallCreateDictsRaises
    \/ BuildRaises
    \/ Build
    \/ SolveModelBadSolver
    \/ SolveModelRejected
    \/ SolveModelAccepted
    \/ ExtractTotalCost
    \/ ExtractGen
    \/ ExtractBus
    \/ ExtractBusKeyError
    \/ ExtractBranch
    \/ Unscale
    \/ Return

Spec == Init /\ [][Next]_vars

----------------------------------------------------------------------------
(* Vocabulary of the properties *)

\* _solve_model has run to its end, by return or by exception
SolveModelEnded == results # <<>>

SolveModelRaised == raised # <<>> /\ raised[1].where = "_solve_model"

ReportedStatus == results[1].termination_condition

\* the snapshot a successful call handed back
ReturnedMd == returned[1].md[1]

TheSolution == m[1].solution[1]

\* the statuses the specification lists as accepted
ListedStatuses ==
    {"optimal", "locallyOptimal", "globallyOptimal", "feasible",
     "maxTimeLimit", "maxIterations", "maxEvaluations", "other"}

\* the listed statuses and the two minimum-reached statuses
AcceptedStatuses == ListedStatuses \cup {"minFunctionValue", "minStepLength"}

\* no result field is on the snapshot beyond what the caller's object held
NoResultWritten(snapshot) ==
    /\ "total_cost" \notin DOMAIN snapshot.system
    /\ \A g \in DOMAIN snapshot.generator :
          snapshot.generator[g] = model_data.generator[g]
    /\ \A b \in DOMAIN snapshot.bus : "pl" \notin DOMAIN snapshot.bus[b]
    /\ \A k \in DOMAIN snapshot.branch : "pf" \notin DOMAIN snapshot.branch[k]

----------------------------------------------------------------------------
(* C1: _solve_model accepts exactly optimal, locallyOptimal,               *)
(* globallyOptimal, feasible, maxTimeLimit, maxIterations, maxEvaluations   *)
(* and other; for every other status it raises and does not return.         *)
C1_AcceptsExactlyListed ==
    SolveModelEnded => (~SolveModelRaised <=> ReportedStatus \in ListedStatuses)

(* C1 as amended: the accepted statuses are the listed ones together with   *)
(* minFunctionValue and minStepLength; every other status raises.           *)
C1_AcceptsListedAndMinimums ==
    SolveModelEnded => (~SolveModelRaised <=> ReportedStatus \in AcceptedStatuses)

C1_Witness ==
    /\ pc = "solved"
    /\ ReportedStatus = "minFunctionValue"
    /\ raised = <<>>

(* C2: for every status outside the accepted set the failure raised is the  *)
(* solver-rejection error and its message carries the reported status.      *)
C2_RejectionCarriesStatus ==
    (SolveModelEnded /\ SolveModelRaised) =>
        /\ raised[1].type = "Exception"
        /\ raised[1].text = "Problem encountered during solve, termination_condition {}"
        /\ raised[1].arg = ReportedStatus

(* C3: solve_dcopf_losses either returns a snapshot on which total_cost,    *)
(* every generator's pg, every bus's pl and every branch's pf were written  *)
(* from the solved model, or raises and returns nothing; with a rejected    *)
(* status nothing is written and nothing is returned.                       *)
C3_NoPartialResult ==
    /\ returned # <<>> =>
          /\ raised = <<>>
          /\ "total_cost" \in DOMAIN ReturnedMd.system
          /\ ReturnedMd.system["total_cost"] = TheSolution.obj
          /\ \A g \in Gens : ReturnedMd.generator[g]["pg"] = TheSolution.pg[g]
          /\ \A b \in Buses : /\ "pl" \in DOMAIN ReturnedMd.bus[b]
                              /\ ReturnedMd.bus[b]["pl"] = m[1].pl[b]
          /\ \A k \in Branches : /\ "pf" \in DOMAIN ReturnedMd.branch[k]
                                 /\ ReturnedMd.branch[k]["pf"] = TheSolution.pf[k]
          /\ {<<"system", 0, "total_cost">>}
                \cup {<<"generator", g, "pg">> : g \in Gens}
                \cup {<<"bus", b, "pl">> : b \in Buses}
                \cup {<<"branch", k, "pf">> : k \in Branches} \subseteq wrote
    /\ raised # <<>> => returned = <<>>
    /\ (SolveModelEnded /\ ReportedStatus \notin AcceptedStatuses) =>
          /\ raised # <<>>
          /\ returned = <<>>
          /\ wrote = {}
          /\ NoResultWritten(md[1])

C3_Witness ==
    /\ pc = "returned"
    /\ returned[1].shape = "md"
    /\ ReportedStatus = "maxTimeLimit"

(* C4: the builders and solve_dcopf_losses never write the caller's         *)
(* model_data; scaling, sensitivities, results and unscaling go to the      *)
(* clone, and the snapshot returned is the clone, on success and failure.   *)
C4_CallerSnapshotUntouched ==
    [][call = "solve_dcopf_losses" =>
          /\ model_data' = model_data
          /\ returned' # <<>> => returned'[1].md = md']_vars

C4_Witness ==
    /\ pc = "returned"
    /\ "qlmp" \in DOMAIN model_data.bus[1]
    /\ "qlmp" \notin DOMAIN ReturnedMd.bus[1]
    /\ "ptdf_r" \in DOMAIN ReturnedMd.branch[1]
    /\ "ptdf_r" \notin DOMAIN model_data.branch[1]

(* C5: with create_ptdf_losses_dcopf_model the price written for bus b is   *)
(* dual(system balance) + sum over all branches k of ptdf_r[k][b] *         *)
(* dual(flow equality k) + ldf[k][b] * dual(loss equality k), each branch   *)
(* once and nothing else.                                                   *)
BusLoopPassed(b) ==
    \/ pc \in {"branches", "unscale", "return", "returned"}
    \/ pc = "buses" /\ b < idx

PtdfPrice(snapshot, dual, b) ==
    dual.eq_p_balance
      + SetSum([k \in Branches |->
                  snapshot.branch[k]["ptdf_r"][b] * dual.eq_pf_branch[k]
                    + snapshot.branch[k]["ldf"][b] * dual.eq_pfl_branch[k]],
               Branches)

C5_PtdfPriceIsTheSum ==
    generator = "create_ptdf_losses_dcopf_model" =>
        \A b \in Buses :
            BusLoopPassed(b) =>
                md[1].bus[b]["lmp"] = PtdfPrice(md[1], TheSolution.dual, b)

C5_Witness ==
    /\ pc = "returned"
    /\ generator = "create_ptdf_losses_dcopf_model"
    /\ \E b \in Buses : \E j, k \in Branches :
          /\ j # k
          /\ md[1].branch[j]["ptdf_r"][b] * TheSolution.dual.eq_pf_branch[j] # 0
          /\ md[1].branch[k]["ldf"][b] * TheSolution.dual.eq_pfl_branch[k] # 0
          /\ md[1].bus[b]["lmp"] # TheSolution.dual.eq_p_balance

(* C7: after a successful solve every branch of the returned snapshot holds *)
(* its flow result and its loss result, the values of pf and of pfl.        *)
C7_BranchFlowAndLossWritten ==
    returned # <<>> =>
        \A k \in Branches :
            /\ "pf" \in DOMAIN ReturnedMd.branch[k]
            /\ ReturnedMd.branch[k]["pf"] = TheSolution.pf[k]
            /\ "pfl" \in DOMAIN ReturnedMd.branch[k]
            /\ ReturnedMd.branch[k]["pfl"] = TheSolution.pfl[k]

(* C8: after a successful solve, whatever generator was passed, every bus's *)
(* marginal price in the returned snapshot was written by this solve; a     *)
(* price of the input snapshot is never carried through unchanged.          *)
C8_PriceWrittenByThisSolve ==
    returned # <<>> =>
        \A b \in Buses :
            /\ <<"bus", b, "lmp">> \in wrote
            /\ "lmp" \in DOMAIN model_data.bus[b] =>
                  ReturnedMd.bus[b]["lmp"] # model_data.bus[b]["lmp"]

(* C9: in every mapping create_dicts_of_ptdf and create_dicts_of_ptdf_losses *)
(* store (ptdf, ptdf_r, ldf rows by bus; phi rows by branch) a key is        *)
(* present iff the computed entry is not zero, and no stored value is 0.     *)
BranchRowFields == {"ptdf", "ptdf_r", "ldf"}

BusRowFields == {"phi_from", "phi_to", "phi_loss_from", "phi_loss_to"}

\* the snapshots on which sensitivity dicts have been stored
WithDicts ==
    IF call = "solve_dcopf_losses"
    THEN IF md # <<>> /\ BuilderOf(generator) = "create_ptdf_losses_dcopf_model"
         THEN {md[1]} ELSE {}
    ELSE IF pc = "done" THEN {model_data} ELSE {}

\* the base point the sensitivities of this call were computed at
BasePointUsed(dflt) ==
    IF call = "solve_dcopf_losses" THEN dflt ELSE Default(base_point_arg, dflt)

\* the matrix entry a stored row entry was computed as
ComputedBranchEntry(f, k, b) ==
    IF f = "ptdf"
    THEN calculate_ptdf(case, BasePointUsed(create_dicts_of_ptdf_default),
            model_data.system.reference_bus)[k][b]
    ELSE IF f = "ptdf_r"
    THEN calculate_ptdf_ldf(case,
            BasePointUsed(create_dicts_of_ptdf_losses_default),
            model_data.system.reference_bus)[1][k][b]
    ELSE calculate_ptdf_ldf(case,
            BasePointUsed(create_dicts_of_ptdf_losses_default),
            model_data.system.reference_bus)[2][k][b]

ComputedBusEntry(f, b, k) ==
    IF f = "phi_from" THEN calculate_phi_constant(case, model_data.branch)[1][b][k]
    ELSE IF f = "phi_to" THEN calculate_phi_constant(case, model_data.branch)[2][b][k]
    ELSE IF f = "phi_loss_from"
    THEN calculate_phi_loss_constant(case, model_data.branch)[1][b][k]
    ELSE calculate_phi_loss_constant(case, model_data.branch)[2][b][k]

BusRowsSparse(snapshot) ==
    \A b \in Buses : \A f \in BusRowFields \cap DOMAIN snapshot.bus[b] :
        \A k \in Branches :
            /\ k \in DOMAIN snapshot.bus[b][f] <=> ComputedBusEntry(f, b, k) # 0
            /\ k \in DOMAIN snapshot.bus[b][f] =>
                  snapshot.bus[b][f][k] = ComputedBusEntry(f, b, k)

BranchRowsSparse(snapshot) ==
    \A k \in Branches : \A f \in BranchRowFields \cap DOMAIN snapshot.branch[k] :
        \A b \in Buses :
            /\ b \in DOMAIN snapshot.branch[k][f] <=> ComputedBranchEntry(f, k, b) # 0
            /\ b \in DOMAIN snapshot.branch[k][f] => snapshot.branch[k][f][b] # 0

BranchRowsDense(snapshot) ==
    \A k \in Branches : \A f \in BranchRowFields \cap DOMAIN snapshot.branch[k] :
        /\ DOMAIN snapshot.branch[k][f] = Buses
        /\ \A b \in Buses : snapshot.branch[k][f][b] = ComputedBranchEntry(f, k, b)

C9_AllRowsSparse ==
    \A snapshot \in WithDicts : BusRowsSparse(snapshot) /\ BranchRowsSparse(snapshot)

(* C9 as amended: the phi rows (by branch) hold a key iff the computed      *)
(* entry is not zero and never hold 0; the ptdf, ptdf_r and ldf rows hold a *)
(* key for every bus, zero entries included.                                *)
C9_PhiRowsSparseOthersDense ==
    \A snapshot \in WithDicts : BusRowsSparse(snapshot) /\ BranchRowsDense(snapshot)

C9_Witness ==
    \E snapshot \in WithDicts :
        /\ \E b \in Buses : \E k \in Branches :
              /\ "phi_from" \in DOMAIN snapshot.bus[b]
              /\ k \notin DOMAIN snapshot.bus[b]["phi_from"]
        /\ \E b \in Buses : \E k \in Branches :
              /\ "phi_loss_to" \in DOMAIN snapshot.bus[b]
              /\ k \in DOMAIN snapshot.bus[b]["phi_loss_to"]
        /\ \E b \in Buses : \E k \in Branches :
              /\ "ldf" \in DOMAIN snapshot.branch[k]
              /\ snapshot.branch[k]["ldf"][b] = 0

(* C10: with no base point supplied the loss sensitivities are linearized   *)
(* at flat start: create_dicts_of_ptdf_losses by default hands the          *)
(* flat-start base point to the sensitivity computation, the same default   *)
(* as create_dicts_of_ptdf.                                                 *)
BasePointOmitted == call = "solve_dcopf_losses" \/ base_point_arg = <<>>

\* every stored loss sensitivity is the one computed at base point bp
LossDictsComputedAt(snapshot, bp) ==
    \A k \in Branches :
        "ptdf_r" \in DOMAIN snapshot.branch[k] =>
            /\ snapshot.branch[k]["ptdf_r"] = calculate_ptdf_ldf(case, bp, model_data.system.reference_bus)[1][k]
            /\ snapshot.branch[k]["ldf"] = calculate_ptdf_ldf(case, bp, model_data.system.reference_bus)[2][k]
            /\ snapshot.branch[k]["ldf_c"] = calculate_ptdf_ldf(case, bp, model_data.system.reference_bus)[3][k]

PtdfDictsComputedAt(snapshot, bp) ==
    \A k \in Branches :
        "ptdf" \in DOMAIN snapshot.branch[k] =>
            snapshot.branch[k]["ptdf"] = calculate_ptdf(case, bp, model_data.system.reference_bus)[k]

C10_LossDefaultIsFlatStart ==
    BasePointOmitted =>
        \A snapshot \in WithDicts :
            /\ LossDictsComputedAt(snapshot, "FLATSTART")
            /\ PtdfDictsComputedAt(snapshot, "FLATSTART")

(* C10 as amended: with no base point supplied create_dicts_of_ptdf_losses  *)
(* (and so create_ptdf_losses_dcopf_model) hands the solution base point to *)
(* the sensitivity computation; only create_dicts_of_ptdf defaults to flat  *)
(* start.                                                                   *)
C10_LossDefaultIsSolution ==
    BasePointOmitted =>
        \A snapshot \in WithDicts :
            /\ LossDictsComputedAt(snapshot, "SOLUTION")
            /\ PtdfDictsComputedAt(snapshot, "FLATSTART")

C10_Witness ==
    /\ pc = "built"
    /\ generator = "create_ptdf_losses_dcopf_model"
    /\ \E k \in Branches :
          md[1].branch[k]["ptdf_r"] # calculate_ptdf_ldf(case, "FLATSTART",
                                       model_data.system.reference_bus)[1][k]

(* C11: _solve_model takes the solver as a name string or as an             *)
(* instantiated solver object and in both cases sets the options and issues *)
(* the solve request; for any other argument it raises 'solver must be      *)
(* string or an instanciated pyomo solver' before options are set and       *)
(* before a solve request is issued.                                        *)
InCalls(name) == \E i \in 1..Len(calls) : calls[i] = name

SolveModelLeft == pc \notin {"start", "built"} /\ call = "solve_dcopf_losses" /\ m # <<>>

C11_SolverStringOrObject ==
    SolveModelLeft =>
        /\ solver \in {"str", "OptSolver"} =>
              /\ InCalls("_set_options")
              /\ InCalls("solve")
              /\ results # <<>>
        /\ solver = "other" =>
              /\ raised # <<>>
              /\ raised[1].type = "Exception"
              /\ raised[1].text = "solver must be string or an instanciated pyomo solver"
              /\ ~InCalls("_set_options")
              /\ ~InCalls("solve")

(* C12: formulating a model, with either builder, from a snapshot whose     *)
(* reference bus is not in the bus set raises during formulation and never  *)
(* returns a model; no other bus is substituted and the pin is not skipped. *)
ReferenceBusAbsent == model_data.system.reference_bus \notin DOMAIN model_data.bus

C12_AbsentReferenceBusRaises ==
    (call = "solve_dcopf_losses" /\ ReferenceBusAbsent) =>
        /\ m = <<>>
        /\ results = <<>>
        /\ returned = <<>>
        /\ wrote = {}
        /\ pc # "start" =>
              /\ pc = "raised"
              /\ raised # <<>>
              /\ raised[1].arg = "reference_bus"
              /\ raised[1].where \in {"create_btheta_losses_dcopf_model", "tx_calc"}

C12_Witness ==
    /\ call = "solve_dcopf_losses"
    /\ ReferenceBusAbsent
    /\ generator = "create_btheta_losses_dcopf_model"
    /\ pc = "raised"
    /\ raised[1].type = "KeyError"

(* C13: for every branch with thermal rating R both builders bound the flow *)
(* variable to [-R, R]; the angle-based builder bounds the loss variable to *)
(* [0, R^2], never negative; the PTDF builder bounds it to [-R^2, R^2].     *)
Rating(k) == md[1].branch[k].rating_long_term

C13_FlowAndLossBounds ==
    m # <<>> =>
        \A k \in Branches :
            /\ m[1].pf_bounds[k][1] = -Rating(k)
            /\ m[1].pf_bounds[k][2] = Rating(k)
            /\ m[1].pfl_bounds[k][2] = Rating(k) * Rating(k)
            /\ IF BuilderOf(generator) = "create_btheta_losses_dcopf_model"
               THEN m[1].pfl_bounds[k][1] = 0
               ELSE m[1].pfl_bounds[k][1] = -(Rating(k) * Rating(k))

C13_Witness ==
    /\ pc = "built"
    /\ generator = "create_btheta_losses_dcopf_model"
    /\ \E j, k \in Branches : Rating(j) # Rating(k)
    /\ \A k \in Branches : m[1].pfl_bounds[k][1] = 0 /\ m[1].pf_bounds[k][1] < 0

(* C14: what solve_dcopf_losses returns is shaped by the two flags alone:   *)
(* (snapshot, model, results) when both are true, (snapshot, model) for     *)
(* return_model only, (snapshot, results) for return_results only, the      *)
(* snapshot alone otherwise; the snapshot always comes first.               *)
C14_ReturnShapeFollowsFlags ==
    returned # <<>> =>
        LET return_model == return_flags[1]
            return_results == return_flags[2]
        IN /\ returned[1].shape =
                 IF return_model /\ return_results THEN "md, m, results"
                 ELSE IF return_model THEN "md, m"
                 ELSE IF return_results THEN "md, results"
                 ELSE "md"
           /\ returned[1].md = md
           /\ returned[1].m = IF return_model THEN m ELSE <<>>
           /\ returned[1].results = IF return_results THEN results ELSE <<>>

C14_Witness ==
    /\ returned # <<>>
    /\ return_flags = <<FALSE, TRUE>>
    /\ returned[1].shape = "md, results"
    /\ generator = "partial(create_ptdf_losses_dcopf_model)"

(* C15: _set_options takes the family of the first of 'gurobi', 'cplex',    *)
(* 'glpk', 'cbc' contained in the solver's name and sets that family's gap  *)
(* option and time-limit option, each iff its argument is not None; for a   *)
(* name containing none of the four it sets neither and raises nothing.     *)
(* The passthrough options are written afterwards, so a passthrough key     *)
(* equal to a gap or time-limit option key overrides the value.             *)
SetOptionsRan == InCalls("_set_options")

\* the first family, in the order gurobi, cplex, glpk, cbc, the name contains
FirstFamily(name) ==
    IF \E i \in DOMAIN Families : Families[i] \in name
    THEN {Families[CHOOSE i \in DOMAIN Families :
              /\ Families[i] \in name
              /\ \A j \in DOMAIN Families : Families[j] \in name => i <= j]}
    ELSE {}

GapKeys ==
    [gurobi |-> "MIPGap", cplex |-> "mip_tolerances_mipgap",
     glpk |-> "mipgap", cbc |-> "ratioGap"]

TimeLimitKeys ==
    [gurobi |-> "TimeLimit", cplex |-> "timelimit", glpk |-> "tmlim", cbc |-> "sec"]

PassedThrough == IF other_options = <<>> THEN <<>> ELSE other_options[1]

C15_SetOptions ==
    SetOptionsRan =>
        LET fam == FirstFamily(solver_name)
            gapKey == {GapKeys[f] : f \in {g \in fam : mipgap # <<>>}}
            limitKey == {TimeLimitKeys[f] : f \in {g \in fam : timelimit # <<>>}}
        IN /\ DOMAIN solver_options = gapKey \cup limitKey \cup DOMAIN PassedThrough
           /\ \A k \in DOMAIN solver_options :
                 solver_options[k] =
                     IF k \in DOMAIN PassedThrough THEN PassedThrough[k]
                     ELSE IF k \in gapKey THEN mipgap[1]
                     ELSE timelimit[1]
           /\ call = "_set_options" => raised = <<>> /\ pc = "done"

C15_Witness ==
    /\ call = "_set_options" /\ pc = "done"
    /\ solver_name = {"gurobi", "glpk"}
    /\ mipgap # <<>> /\ timelimit # <<>>
    /\ other_options # <<>>
    /\ DOMAIN other_options[1] = {"MIPGap", "tmlim"}
    /\ solver_options["MIPGap"] = "passthrough"
    /\ solver_options["TimeLimit"] = "60"
    /\ "mipgap" \notin DOMAIN solver_options

(* C16: over any sequence of calls of functions decorated with              *)
(* add_model_attr(attr, requires) on a model, a body runs only if at call   *)
(* time the model lacks attr and, for every key of requires, has that key   *)
(* set, to one of the allowed names when the requirement is not None;       *)
(* otherwise an exception is raised, the body does not run and the model is *)
(* unchanged. So at most one function per attr ever runs on the model, and  *)
(* after a call that returned the model's attr is that function's name.     *)
BodyRan(e) == e.body # "not run"

MayRun(e) ==
    /\ e.func.attr \notin DOMAIN e.before
    /\ \A i \in DOMAIN e.func.requires :
          LET key == e.func.requires[i][1]
              allowed == e.func.requires[i][2]
          IN /\ key \in DOMAIN e.before
             /\ allowed # <<>> => e.before[key] \in allowed[1]

C16_BodyRunsOnlyWhenAllowed ==
    /\ \A i \in DOMAIN uc_log :
          LET e == uc_log[i]
          IN /\ BodyRan(e) => MayRun(e)
             /\ ~MayRun(e) => /\ e.exc # <<>>
                              /\ e.exc[1].where = "add_model_attr"
                              /\ ~BodyRan(e)
                              /\ e.after = e.before
             /\ e.body = "returned" => /\ e.func.attr \in DOMAIN e.after
                                       /\ e.after[e.func.attr] = e.func.name
    /\ \A i, j \in DOMAIN uc_log :
          (i # j /\ BodyRan(uc_log[i]) /\ BodyRan(uc_log[j]))
              => uc_log[i].func.attr # uc_log[j].func.attr
    /\ uc_log # <<>> => uc_model = uc_log[Len(uc_log)].after

C16_Witness ==
    /\ Len(uc_log) = 3
    /\ uc_log[1].func.name = "f1" /\ uc_log[1].body = "returned"
    /\ uc_log[2].func.name = "f2" /\ uc_log[2].body = "not run"
    /\ uc_log[3].func.name = "g1" /\ uc_log[3].body = "returned"
    /\ uc_model = [status_vars |-> "f1", power_vars |-> "g1"]

(* C17: the wrapper tags the model before it runs the body, so once a body  *)
(* has raised the tag stays that function's name: every later call of a     *)
(* function decorated with the same attr is rejected with 'Model already    *)
(* has', and a later function requiring that attr is never refused for its  *)
(* absence.                                                                  *)
C17_TagSurvivesFailingBody ==
    \A i \in DOMAIN uc_log :
        uc_log[i].body = "raised" =>
            LET attr == uc_log[i].func.attr
            IN /\ attr \in DOMAIN uc_log[i].after
               /\ uc_log[i].after[attr] = uc_log[i].func.name
               /\ attr \in DOMAIN uc_model /\ uc_model[attr] = uc_log[i].func.name
               /\ \A j \in DOMAIN uc_log :
                     j > i =>
                        /\ uc_log[j].func.attr = attr =>
                              /\ uc_log[j].body = "not run"
                              /\ uc_log[j].exc = <<AddModelAttrError("Model already has", attr)>>
                        /\ uc_log[j].exc # <<AddModelAttrError("requires some", attr)>>
                        /\ (/\ uc_log[j].func.attr \notin DOMAIN uc_log[j].before
                            /\ uc_log[j].func.requires # <<>>
                            /\ \A k \in DOMAIN uc_log[j].func.requires :
                                  /\ uc_log[j].func.requires[k][1] = attr
                                  /\ uc_log[j].func.requires[k][2] = <<>>)
                              => BodyRan(uc_log[j])

C17_Witness ==
    /\ Len(uc_log) = 3
    /\ uc_log[1].func.name = "f1" /\ uc_log[1].body = "raised"
    /\ uc_log[2].func.name = "f2" /\ uc_log[2].body = "not run"
    /\ uc_log[3].func.name = "g2" /\ uc_log[3].body = "returned"

(* C18: after create_dicts_of_ptdf_losses every branch's ptdf_r row and ldf *)
(* row have a key for every bus of the snapshot, zero entries included, and *)
(* every branch has ldf_c; so the PTDF marginal-price extraction of         *)
(* solve_dcopf_losses never meets a missing key in ptdf_r[b] or ldf[b].     *)
LossRowsComplete(snapshot) ==
    \A k \in DOMAIN snapshot.branch :
        /\ {"ptdf_r", "ldf", "ldf_c"} \subseteq DOMAIN snapshot.branch[k]
        /\ DOMAIN snapshot.branch[k]["ptdf_r"] = DOMAIN snapshot.bus
        /\ DOMAIN snapshot.branch[k]["ldf"] = DOMAIN snapshot.bus

C18_LossRowsCoverEveryBus ==
    /\ (call = "create_dicts_of_ptdf_losses" /\ pc = "done" /\ raised = <<>>)
          => LossRowsComplete(model_data)
    /\ (call = "solve_dcopf_losses" /\ md # <<>> /\ m # <<>>
        /\ generator \in {"create_ptdf_losses_dcopf_model",
                          "partial(create_ptdf_losses_dcopf_model)"})
          => LossRowsComplete(md[1])
    /\ (raised # <<>> /\ raised[1].type = "KeyError"
        /\ raised[1].where = "solve_dcopf_losses") => raised[1].arg = "m.dual"

C18_Witness ==
    /\ call = "solve_dcopf_losses" /\ pc = "returned"
    /\ generator = "create_ptdf_losses_dcopf_model"
    /\ \E k \in DOMAIN md[1].branch, b \in DOMAIN md[1].bus :
          /\ md[1].branch[k]["ptdf_r"][b] = 0
          /\ <<"bus", b, "lmp">> \in wrote
    /\ \E k \in DOMAIN md[1].branch, b \in DOMAIN md[1].bus : md[1].branch[k]["ldf"][b] = 0

====
